---- MODULE Spec2Model ----
(***************************************************************************)
(* Model of src/crypto_tracker.py: the CryptoTrackerApp polling loop, its  *)
(* bounded price histories, the per-coin alerts and the user's handlers.   *)
(*                                                                         *)
(* The Tk main loop runs one callback at a time, so each handler is one    *)
(* atomic action.  The fetch thread touches no tracker state: it reads the *)
(* network and posts one callback with root.after(0, ...), so its whole    *)
(* run is one action as well.  The texts of the alert Entry widgets, the  *)
(* direction Comboboxes and the refresh Spinbox are the user's to change   *)
(* at any time, so each handler draws the text it reads from a small set.  *)
(***************************************************************************)
EXTENDS Integers, Sequences, FiniteSets, TLC

\* ----------------------------------------------------------------- bounds
\* MAX_HISTORY is 120 in the source (line 35); the model scales it down so
\* that eviction happens within MaxCycles poll cycles.
MAX_HISTORY == 1
\* Number of fetch results the model lets the clock reach.
MaxCycles == 2

\* ---------------------------------------------------------- configuration
\* COINS (line 31) restricted to two of the three configured coins; the
\* order is the iteration order of the result dict of fetch_prices.
COINS == <<"bitcoin", "ethereum">>
CoinSet == {COINS[i] : i \in 1..Len(COINS)}

\* Prices the remote API may report (float(data[coin]["usd"])).
Prices == {1, 2}
\* Python's None for an optional price (result[coin] = None, line 232;
\* current_prices[coin] = None, line 48).
None == -1

\* ------------------------------------------------------------------ floats
\* A Python float as set_alert obtains it from float(txt): a finite number
\* or one of the IEEE specials that float() also accepts.
Num(n) == [kind |-> "num", val |-> n]
Inf == [kind |-> "inf", val |-> 0]
NegInf == [kind |-> "-inf", val |-> 0]
NaN == [kind |-> "nan", val |-> 0]
\* alerts[coin]["threshold"] = None
NoThreshold == [kind |-> "None", val |-> 0]

IsFinite(f) == f.kind = "num"

\* price >= thr and price <= thr for a finite price and a float threshold.
FloatGe(price, thr) ==
    CASE thr.kind = "num" -> price >= thr.val
      [] thr.kind = "-inf" -> TRUE
      [] OTHER -> FALSE
FloatLe(price, thr) ==
    CASE thr.kind = "num" -> price <= thr.val
      [] thr.kind = "inf" -> TRUE
      [] OTHER -> FALSE

\* ------------------------------------------------------------------- text
\* Entry text is a sequence of one-character strings.
Digits == {"0", "1", "2", "3", "4", "5", "6", "7", "8", "9"}
DigitVal(c) ==
    CASE c = "0" -> 0 [] c = "1" -> 1 [] c = "2" -> 2 [] c = "3" -> 3
      [] c = "4" -> 4 [] c = "5" -> 5 [] c = "6" -> 6 [] c = "7" -> 7
      [] c = "8" -> 8 [] c = "9" -> 9

IsDigits(s) == Len(s) > 0 /\ \A i \in 1..Len(s) : s[i] \in Digits

RECURSIVE DigitsVal(_)
DigitsVal(s) ==
    IF Len(s) = 0 THEN 0
    ELSE 10 * DigitsVal(SubSeq(s, 1, Len(s) - 1)) + DigitVal(s[Len(s)])

\* str.strip()
RECURSIVE LStrip(_)
LStrip(s) == IF Len(s) > 0 /\ s[1] = " " THEN LStrip(Tail(s)) ELSE s
RECURSIVE RStrip(_)
RStrip(s) ==
    IF Len(s) > 0 /\ s[Len(s)] = " " THEN RStrip(SubSeq(s, 1, Len(s) - 1)) ELSE s
Strip(s) == RStrip(LStrip(s))

\* str.replace(",", "")
RECURSIVE RemoveCommas(_)
RemoveCommas(s) ==
    IF Len(s) = 0 THEN <<>>
    ELSE IF s[1] = "," THEN RemoveCommas(Tail(s))
    ELSE <<s[1]>> \o RemoveCommas(Tail(s))

\* float(s): ok = FALSE stands for ValueError.
PyFloat(s) ==
    IF IsDigits(s) THEN [ok |-> TRUE, f |-> Num(DigitsVal(s))]
    ELSE IF s = <<"i", "n", "f">> THEN [ok |-> TRUE, f |-> Inf]
    ELSE IF s = <<"-", "i", "n", "f">> THEN [ok |-> TRUE, f |-> NegInf]
    ELSE IF s = <<"n", "a", "n">> THEN [ok |-> TRUE, f |-> NaN]
    ELSE [ok |-> FALSE, f |-> NoThreshold]

\* Texts the user may have left in an alert Entry when clicking Set.
AlertTexts ==
    { <<>>, <<"a", "b", "c">>, <<" ", "2", ",">>, <<"i", "n", "f">> }
\* The read-only Combobox offers these two values (line 95).
Directions == {"above", "below"}

\* IntVar.get() on the refresh Spinbox text: ok = FALSE stands for TclError.
IntVarGet(s) ==
    IF IsDigits(s) THEN [ok |-> TRUE, v |-> DigitsVal(s)]
    ELSE IF Len(s) > 1 /\ s[1] = "-" /\ IsDigits(Tail(s))
         THEN [ok |-> TRUE, v |-> 0 - DigitsVal(Tail(s))]
    ELSE [ok |-> FALSE, v |-> 0]
\* Texts the user may have left in the refresh Spinbox.
RefreshTexts == { <<"5">>, <<"0">>, <<"-", "1">>, <<>> }

Max(a, b) == IF a >= b THEN a ELSE b
Min(a, b) == IF a <= b THEN a ELSE b

\* ------------------------------------------------------------------ state
VARIABLES
    price_history,   \* coin -> deque(maxlen=MAX_HISTORY) of prices
    timestamps,      \* deque(maxlen=MAX_HISTORY) of cycle timestamps
    current_prices,  \* coin -> price or None
    alerts,          \* coin -> [threshold, direction]
    threads,         \* number of running fetch threads
    after_queue,     \* callbacks registered with root.after, not yet run
    now,             \* the wall clock read by datetime.now()
    msgs,            \* message boxes shown during the step that led here
    appended,        \* coin -> every price appended since startup / the last clear
    csv_file         \* the CSV file written during the step that led here

vars == <<price_history, timestamps, current_prices, alerts, threads,
          after_queue, now, msgs, appended, csv_file>>

\* Mutant: a plain list, nothing is evicted.
DequeAppendUnbounded(d, x) == Append(d, x)

\* deque(maxlen=MAX_HISTORY).append(x)
DequeAppend(d, x) ==
    LET a == Append(d, x)
    IN IF Len(a) > MAX_HISTORY THEN Tail(a) ELSE a

\* A message box: its title and the coin it is about ("" when none).
Box(title, coin) == [title |-> title, coin |-> coin]

\* Callbacks held by Tk's timer queue.
ProcessCallback(prices) ==
    [kind |-> "process", raised |-> prices.raised, prices |-> prices.result, delay |-> 0]
ScheduleCallback(delay_ms) ==
    [kind |-> "schedule", raised |-> FALSE,
     prices |-> [c \in CoinSet |-> None], delay |-> delay_ms]

RemoveAt(q, i) == SubSeq(q, 1, i - 1) \o SubSeq(q, i + 1, Len(q))

\* No file is written by a step: the header and the rows are empty.
NoFile == [header |-> <<>>, rows |-> <<>>]

\* __init__: empty histories, unknown prices, no alerts, and the first
\* fetch thread already started by _schedule_price_update(0).
Init ==
    /\ price_history = [c \in CoinSet |-> <<>>]
    /\ timestamps = <<>>
    /\ current_prices = [c \in CoinSet |-> None]
    /\ alerts = [c \in CoinSet |-> [threshold |-> NoThreshold, direction |-> "above"]]
    /\ threads = 1
    /\ after_queue = <<>>
    /\ now = 0
    /\ msgs = <<>>
    /\ appended = [c \in CoinSet |-> <<>>]
    /\ csv_file = NoFile


\* ---------------------------------------------------------------- fetcher
\* What the HTTP request can come back with: a transport/HTTP/JSON error,
\* or a JSON object in which each coin's entry either carries a number,
\* is missing (no coin key or no "usd" key), or carries a value float()
\* cannot convert.
Entries ==
    {[kind |-> "price", v |-> p] : p \in Prices}
        \cup {[kind |-> "missing", v |-> 0], [kind |-> "bad", v |-> 0]}
Responses ==
    {[status |-> "error", data |-> [c \in CoinSet |-> [kind |-> "missing", v |-> 0]]]}
        \cup {[status |-> "ok", data |-> d] : d \in [CoinSet -> Entries]}

\* One coin of the loop of fetch_prices (lines 229-232).
CoinResult(entry) == IF entry.kind = "price" THEN entry.v ELSE None

\* fetch_prices: raised = TRUE when requests.get / raise_for_status /
\* resp.json() raises, or when float() raises on some coin's value.
fetch_prices(resp) ==
    IF resp.status = "error" \/ \E c \in CoinSet : resp.data[c].kind = "bad"
    THEN [raised |-> TRUE, result |-> [c \in CoinSet |-> None]]
    ELSE [raised |-> FALSE, result |-> [c \in CoinSet |-> CoinResult(resp.data[c])]]

\* Mutant: the fetch thread stores the prices it fetched itself instead of
\* leaving every write to the main loop.
FetchAndProcessPricesDirect ==
    /\ threads > 0
    /\ \E resp \in Responses :
         LET prices == fetch_prices(resp)
         IN /\ after_queue' = Append(after_queue, ProcessCallback(prices))
            /\ current_prices' =
                 [c \in CoinSet |->
                    IF prices.result[c] = None THEN current_prices[c]
                    ELSE prices.result[c]]
    /\ threads' = threads - 1
    /\ msgs' = <<>>
    /\ csv_file' = NoFile
    /\ UNCHANGED <<price_history, timestamps, alerts, now, appended>>

\* _fetch_and_process_prices, run by the fetch thread: the except clause
\* turns any exception into prices = None, then the result is handed to the
\* main loop with root.after(0, ...).
FetchAndProcessPrices ==
    /\ threads > 0
    /\ \E resp \in Responses :
         after_queue' = Append(after_queue, ProcessCallback(fetch_prices(resp)))
    /\ threads' = threads - 1
    /\ msgs' = <<>>
    /\ csv_file' = NoFile
    /\ UNCHANGED <<price_history, timestamps, current_prices, alerts, now, appended>>

\* ---------------------------------------------------------- tracker state
\* Mutant: strict comparisons, a price equal to the threshold does not fire.
TriggeredStrict(direction, price, thr) ==
    \/ direction = "above" /\ FloatGe(price, thr) /\ ~FloatLe(price, thr)
    \/ direction = "below" /\ FloatLe(price, thr) /\ ~FloatGe(price, thr)

\* Lines 264-267: the trigger condition.
Triggered(direction, price, thr) ==
    \/ direction = "above" /\ FloatGe(price, thr)
    \/ direction = "below" /\ FloatLe(price, thr)

\* Lines 259-268 for one coin that received a price.
Fires(alert_conf, price) ==
    /\ alert_conf.threshold # NoThreshold
    /\ Triggered(alert_conf.direction, price, alert_conf.threshold)

\* Mutant: line 256 is missing, no price is appended.
HistoryAfterNoAppend(hist, price) == hist

\* Lines 248-256 for one coin: the history after the loop body.
HistoryAfter(hist, price) ==
    IF price = None THEN hist ELSE DequeAppend(hist, price)
\* Mutant: an unavailable coin's current price is reset to None.
CurrentAfterReset(cur, price) == price

\* Mutant: line 252 only fills a current price that is still unknown.
CurrentAfterFirst(cur, price) == IF cur = None THEN price ELSE cur

\* Lines 248-252 for one coin: current_prices[coin] after the loop body.
CurrentAfter(cur, price) ==
    IF price = None THEN cur ELSE price
\* Mutant: line 272 is dedented out of "if triggered", so every recorded
\* price clears the alert.
AlertAfterAlwaysClear(alert_conf, price) ==
    IF price # None
    THEN [alert_conf EXCEPT !.threshold = NoThreshold]
    ELSE alert_conf

\* Lines 259-272 for one coin: alerts[coin] after the loop body.
AlertAfter(alert_conf, price) ==
    IF price # None /\ Fires(alert_conf, price)
    THEN [alert_conf EXCEPT !.threshold = NoThreshold]
    ELSE alert_conf
\* Mutant: the "continue" of line 250 is missing, the alert of an
\* unavailable coin is evaluated too.
AlertBoxesNoSkip(coin, alert_conf, price) ==
    IF Fires(alert_conf, price)
    THEN <<Box("Price Alert", coin)>>
    ELSE <<>>

\* Line 270: the "Price Alert" boxes of one coin's loop body.
AlertBoxes(coin, alert_conf, price) ==
    IF price # None /\ Fires(alert_conf, price)
    THEN <<Box("Price Alert", coin)>>
    ELSE <<>>

\* The boxes of the whole loop, in the order of prices.items().
RECURSIVE CycleBoxes(_, _)
CycleBoxes(i, prices) ==
    IF i > Len(COINS) THEN <<>>
    ELSE AlertBoxes(COINS[i], alerts[COINS[i]], prices[COINS[i]])
             \o CycleBoxes(i + 1, prices)

\* Lines 280-281: the timer queue after the callback at position i ran and
\* read refresh text txt; IntVar.get() raising leaves nothing scheduled.
QueueAfterProcess(q, i, txt) ==
    LET r == IntVarGet(txt)
    IN IF r.ok
       THEN Append(RemoveAt(q, i), ScheduleCallback(Max(1000, r.v * 1000)))
       ELSE RemoveAt(q, i)

\* Line 247 with prices = None: prices.items() raises AttributeError, Tk
\* reports the exception and the callback ends there.
QueueAfterFailedFetch(q, i) == RemoveAt(q, i)

\* _process_fetch_result, run by the main loop.
ProcessFetchResult ==
    \E i \in 1..Len(after_queue) :
      LET cb == after_queue[i]
      IN /\ cb.kind = "process"
         /\ timestamps' = DequeAppend(timestamps, now)
         /\ now' = now + 1
         /\ IF cb.raised
            THEN /\ after_queue' = QueueAfterFailedFetch(after_queue, i)
                 /\ msgs' = <<>>
                 /\ UNCHANGED <<price_history, current_prices, alerts, appended>>
            ELSE /\ current_prices' =
                      [c \in CoinSet |-> CurrentAfter(current_prices[c], cb.prices[c])]
                 /\ price_history' =
                      [c \in CoinSet |-> HistoryAfter(price_history[c], cb.prices[c])]
                 /\ appended' =
                      [c \in CoinSet |->
                          IF cb.prices[c] = None THEN appended[c]
                          ELSE Append(appended[c], cb.prices[c])]
                 /\ alerts' = [c \in CoinSet |-> AlertAfter(alerts[c], cb.prices[c])]
                 /\ msgs' = CycleBoxes(1, cb.prices)
                 /\ \E txt \in RefreshTexts :
                      after_queue' = QueueAfterProcess(after_queue, i, txt)
         /\ csv_file' = NoFile
         /\ UNCHANGED threads

\* ------------------------------------------------------------- scheduler
\* Lines 197-198: _schedule_price_update() reads the refresh field; when
\* IntVar.get() raises, the thread of lines 200-201 is never started.
ThreadsAfterSchedule(n, txt) == IF IntVarGet(txt).ok THEN n + 1 ELSE n
\* Mutant: _schedule_price_update also re-arms a timer itself, as the
\* comment of lines 202-203 first suggests.
QueueAfterScheduleRearm(q, i) == Append(RemoveAt(q, i), ScheduleCallback(1000))

\* The timer that ran is gone; _schedule_price_update registers no other.
QueueAfterSchedule(q, i) == RemoveAt(q, i)

\* The timer of line 281 fires and runs _schedule_price_update().
SchedulePriceUpdate ==
    \E i \in 1..Len(after_queue) :
      /\ after_queue[i].kind = "schedule"
      /\ now < MaxCycles
      /\ \E txt \in RefreshTexts : threads' = ThreadsAfterSchedule(threads, txt)
      /\ after_queue' = QueueAfterSchedule(after_queue, i)
      /\ msgs' = <<>>
      /\ csv_file' = NoFile
      /\ UNCHANGED <<price_history, timestamps, current_prices, alerts, now, appended>>

\* ---------------------------------------------------------- user handlers
\* Mutant: the direction is stored before the threshold text is parsed.
AlertAfterSetEager(alert_conf, entry_text, direction) ==
    LET txt == Strip(entry_text)
        parsed == PyFloat(RemoveCommas(txt))
    IN IF txt = <<>> THEN [alert_conf EXCEPT !.threshold = NoThreshold]
       ELSE IF parsed.ok THEN [threshold |-> parsed.f, direction |-> direction]
       ELSE [alert_conf EXCEPT !.direction = direction]
\* Mutant: empty text is not special-cased and fails to parse like any
\* other non-number, leaving the alert armed.
AlertAfterSetNoClear(alert_conf, entry_text, direction) ==
    LET parsed == PyFloat(RemoveCommas(Strip(entry_text)))
    IN IF parsed.ok THEN [threshold |-> parsed.f, direction |-> direction]
       ELSE alert_conf

\* set_alert, lines 180-193: alerts[coin] after the call.
AlertAfterSet(alert_conf, entry_text, direction) ==
    LET txt == Strip(entry_text)
        parsed == PyFloat(RemoveCommas(txt))
    IN IF txt = <<>> THEN [alert_conf EXCEPT !.threshold = NoThreshold]
       ELSE IF parsed.ok THEN [threshold |-> parsed.f, direction |-> direction]
       ELSE alert_conf
\* set_alert: the box it shows.
SetAlertBox(coin, entry_text) ==
    LET txt == Strip(entry_text)
    IN IF txt = <<>> THEN Box("Alert cleared", coin)
       ELSE IF PyFloat(RemoveCommas(txt)).ok THEN Box("Alert set", coin)
       ELSE Box("Invalid number", "")

\* The user clicks Set for a coin with some text in its Entry and some
\* direction selected.
SetAlert ==
    \E coin \in CoinSet, entry_text \in AlertTexts, direction \in Directions :
      /\ alerts' = [alerts EXCEPT ![coin] = AlertAfterSet(@, entry_text, direction)]
      /\ msgs' = <<SetAlertBox(coin, entry_text)>>
      /\ csv_file' = NoFile
      /\ UNCHANGED <<price_history, timestamps, current_prices, threads,
                     after_queue, now, appended>>

\* Mutant: the shared timestamp log is forgotten by clear_history.
TimestampsKept(t) == t

\* Mutant: only the first coin's history is cleared.
HistoriesAfterClearFirst(h) ==
    [c \in CoinSet |-> IF c = COINS[1] THEN <<>> ELSE h[c]]

\* clear_history, lines 341-343.
HistoriesAfterClear(h) == [c \in CoinSet |-> <<>>]
TimestampsAfterClear(t) == <<>>

\* The user clicks Clear History.
ClearHistory ==
    /\ price_history' = HistoriesAfterClear(price_history)
    /\ timestamps' = TimestampsAfterClear(timestamps)
    /\ appended' = [c \in CoinSet |-> <<>>]
    /\ msgs' = <<Box("Cleared", "")>>
    /\ csv_file' = NoFile
    /\ UNCHANGED <<current_prices, alerts, threads, after_queue, now>>

\* ----------------------------------------------------------------- export
\* The empty string "" of a padded timestamp or a missing value (lines 325,
\* 328, 333); timestamps and prices are never negative.
EmptyCell == None
\* COIN_DISPLAY (line 32).
COIN_DISPLAY ==
    [c \in CoinSet |-> IF c = "bitcoin" THEN "Bitcoin (BTC)" ELSE "Ethereum (ETH)"]

\* Line 312: max(len(v) for v in self.price_history.values()).
MaxLen(histories) ==
    CHOOSE n \in {Len(histories[c]) : c \in CoinSet} :
        \A c \in CoinSet : n >= Len(histories[c])
\* [x] * n, the empty list when n <= 0.
Repeat(x, n) == [i \in 1..n |-> x]
\* Lines 322-325: padded_ts.
PaddedTs(ts, max_len) == Repeat(EmptyCell, max_len - Len(ts)) \o ts
\* Line 328: the first column of row idx (0-based).
TimestampCell(padded_ts, idx) ==
    IF idx < Len(padded_ts) THEN padded_ts[idx + 1] ELSE EmptyCell
\* Mutant: values aligned to the first rows, the padding after them.
ExportCellLeft(hist, max_len, idx) ==
    IF idx < Len(hist) THEN hist[idx + 1] ELSE EmptyCell

\* Lines 330-335: one coin's value in row idx (0-based).
ExportCell(hist, max_len, idx) ==
    LET pad_coin == max_len - Len(hist)
    IN IF idx >= pad_coin THEN hist[idx - pad_coin + 1] ELSE EmptyCell
\* Lines 318-319: the header row.
CsvHeader == <<"timestamp">> \o [i \in 1..Len(COINS) |-> COIN_DISPLAY[COINS[i]]]
\* Lines 312-337: the file save_history_csv writes.
CsvFile(histories, ts) ==
    LET max_len == MaxLen(histories)
        padded_ts == PaddedTs(ts, max_len)
    IN [header |-> CsvHeader,
        rows |-> [k \in 1..max_len |->
                    [timestamp |-> TimestampCell(padded_ts, k - 1),
                     cells |-> [c \in CoinSet |->
                                  ExportCell(histories[c], max_len, k - 1)]]]]

\* The user clicks Save History (CSV): nothing to save, or the file dialog
\* is cancelled, or the file is written.
SaveHistoryCsv ==
    /\ \/ /\ \A c \in CoinSet : Len(price_history[c]) = 0
          /\ msgs' = <<Box("No Data", "")>>
          /\ csv_file' = NoFile
       \/ /\ \E c \in CoinSet : Len(price_history[c]) # 0
          /\ msgs' = <<>>
          /\ csv_file' = NoFile
       \/ /\ \E c \in CoinSet : Len(price_history[c]) # 0
          /\ msgs' = <<Box("Saved", "")>>
          /\ csv_file' = CsvFile(price_history, timestamps)
    /\ UNCHANGED <<price_history, timestamps, current_prices, alerts, threads,
                   after_queue, now, appended>>

Next ==
    \/ FetchAndProcessPrices
    \/ ProcessFetchResult
    \/ SchedulePriceUpdate
    \/ SetAlert
    \/ ClearHistory
    \/ SaveHistoryCsv

Spec == Init /\ [][Next]_vars

\* ------------------------------------------------- the export on its own
\* save_history_csv is a function of the histories and the timestamp log.
\* ExportSpec starts it from the tracker states that ExportCap or fewer
\* applied cycles can leave behind when nothing was evicted or cleared:
\* the log holds the cycles' timestamps 0..n-1 and each coin's history
\* holds the prices of the cycles in which it was available.  The price
\* reported in cycle t is PriceAt(t), so a price tells its cycle.
ExportCap == 3
PriceAt(t) == t + 1
\* Line 256 over the cycles in recorded_in, in order.
HistoryOfCycles(ts, recorded_in) ==
    LET kept == SelectSeq(ts, LAMBDA t : t \in recorded_in)
    IN [i \in 1..Len(kept) |-> PriceAt(kept[i])]
LastOrNone(hist) == IF Len(hist) = 0 THEN None ELSE hist[Len(hist)]

ExportInit ==
    \E n \in 0..ExportCap :
      \E recorded_in \in [CoinSet -> SUBSET (0..(n - 1))] :
        /\ timestamps = [i \in 1..n |-> i - 1]
        /\ price_history =
             [c \in CoinSet |-> HistoryOfCycles(timestamps, recorded_in[c])]
        /\ appended = price_history
        /\ current_prices = [c \in CoinSet |-> LastOrNone(price_history[c])]
        /\ alerts = [c \in CoinSet |->
                       [threshold |-> NoThreshold, direction |-> "above"]]
        /\ threads = IF n = 0 THEN 1 ELSE 0
        /\ after_queue = IF n = 0 THEN <<>> ELSE <<ScheduleCallback(5000)>>
        /\ now = n
        /\ msgs = <<>>
        /\ csv_file = NoFile

ExportNext == SaveHistoryCsv

ExportSpec == ExportInit /\ [][ExportNext]_vars

\* ================================================================= claims
\* Only _process_fetch_result reads the clock, so a step that advances it is
\* one run of that callback.
ProcessStep == now' = now + 1
\* The callback at position i is a fetch result waiting to be applied.
IsProcess(i) == after_queue[i].kind = "process"
TimerPending(q) == \E j \in 1..Len(q) : q[j].kind = "schedule"
\* How many boxes with this title and coin a handler showed.
NumBoxes(boxes, title, coin) ==
    Cardinality({k \in 1..Len(boxes) : boxes[k] = Box(title, coin)})
LastN(s, n) == SubSeq(s, Len(s) - n + 1, Len(s))

\* C1: whenever the result of a fetch that failed as a whole (prices = None)
\* is applied, the failure is not fatal: afterwards the timer for the next
\* fetch cycle is pending (or the next fetch thread is already running).
C1_FailedFetchReschedules ==
    [][\A i \in 1..Len(after_queue) :
          (IsProcess(i) /\ after_queue[i].raised /\ ProcessStep)
              => (threads' > 0 \/ TimerPending(after_queue'))]_vars

\* C2: at most one of {running fetch thread, fetch result waiting to be
\* applied, pending timer} exists in every reachable state; a fetch thread
\* is started only by a pending timer firing while nothing else is in
\* flight, and a timer is registered only by the step that applies a
\* fetch result.
C2_OneCycleInFlight ==
    /\ [](threads + Len(after_queue) <= 1)
    /\ [][threads' > threads
            => /\ threads = 0
               /\ TimerPending(after_queue)
               /\ ~TimerPending(after_queue')
               /\ \A i \in 1..Len(after_queue) : ~IsProcess(i)]_vars
    /\ [][(TimerPending(after_queue') /\ ~TimerPending(after_queue))
            => /\ ProcessStep
               /\ \E i \in 1..Len(after_queue) : IsProcess(i)
               /\ \A j \in 1..Len(after_queue') : after_queue'[j].kind # "process"
               /\ threads' = 0]_vars
\* A second fetch thread is running after the first cycle has been applied.
C2_Witness == threads = 1 /\ now >= 1 /\ after_queue = <<>>

\* The trigger condition as the claim states it.
C3_Cond(d, p, t) ==
    \/ d = "above" /\ FloatGe(p, t)
    \/ d = "below" /\ FloatLe(p, t)
\* C3: in a poll cycle that records price p for a coin, exactly one
\* notification is emitted for the coin iff its alert is armed and
\* (direction = above and p >= threshold) or (direction = below and
\* p <= threshold); when it fires the alert becomes absent, otherwise the
\* alert is left as it was, so an absent alert never notifies.
C3_AlertFiresIff ==
    [][\A i \in 1..Len(after_queue) :
          (IsProcess(i) /\ ~after_queue[i].raised /\ ProcessStep)
              => \A c \in CoinSet :
                   LET p == after_queue[i].prices[c]
                       a == alerts[c]
                   IN p # None
                        => IF a.threshold # NoThreshold
                                /\ C3_Cond(a.direction, p, a.threshold)
                           THEN /\ NumBoxes(msgs', "Price Alert", c) = 1
                                /\ alerts'[c].threshold = NoThreshold
                                /\ alerts'[c].direction = a.direction
                           ELSE /\ NumBoxes(msgs', "Price Alert", c) = 0
                                /\ alerts'[c] = a]_vars
\* An "above 2" alert did not fire on price 1 and fired on price 2.
C3_Witness ==
    /\ appended["bitcoin"] = <<1, 2>>
    /\ msgs = <<Box("Price Alert", "bitcoin")>>
    /\ alerts["bitcoin"] = [threshold |-> NoThreshold, direction |-> "above"]

C5_PerCoinDegradation ==
    [][\A i \in 1..Len(after_queue) :
          (IsProcess(i) /\ ~after_queue[i].raised /\ ProcessStep)
              => \A X, Y \in CoinSet :
                   LET prices == after_queue[i].prices
                       old == price_history[Y]
                       new == price_history'[Y]
                   IN (prices[X] = None /\ prices[Y] # None)
                        => /\ current_prices'[X] = current_prices[X]
                           /\ price_history'[X] = price_history[X]
                           /\ current_prices'[Y] = prices[Y]
                           /\ Len(new) >= 1
                           /\ new[Len(new)] = prices[Y]
                           /\ SubSeq(new, 1, Len(new) - 1)
                                = LastN(old, Len(new) - 1)
                           /\ Len(new) = Min(Len(old) + 1, MAX_HISTORY)]_vars
\* bitcoin has never had a price while ethereum's was recorded.
C5_Witness ==
    /\ current_prices["bitcoin"] = None
    /\ price_history["bitcoin"] = <<>>
    /\ current_prices["ethereum"] = 2
    /\ price_history["ethereum"] = <<2>>

\* C6: the fetcher degrades per coin: for every response that arrives
\* (status ok) while a fetch thread runs, fetch_prices does not raise, a
\* coin whose entry is missing or cannot be converted is reported
\* unavailable, and every other coin's price is reported.
C6_FetcherDegradesPerCoin ==
    threads > 0
        => \A resp \in Responses :
             resp.status = "ok"
                 => LET out == fetch_prices(resp)
                    IN /\ ~out.raised
                       /\ \A c \in CoinSet :
                            out.result[c] =
                                IF resp.data[c].kind = "price"
                                THEN resp.data[c].v ELSE None

\* C7: set_alert with the non-numeric text "abc" reports a validation
\* error, and a set_alert that reports a validation error changes no
\* alert, history, timestamp or current price.
C7_InvalidThresholdRejected ==
    /\ [](\A c \in CoinSet, d \in Directions :
            /\ SetAlertBox(c, <<"a", "b", "c">>) = Box("Invalid number", "")
            /\ AlertAfterSet(alerts[c], <<"a", "b", "c">>, d) = alerts[c])
    /\ [][msgs' = <<Box("Invalid number", "")>>
            => UNCHANGED <<alerts, price_history, timestamps, current_prices,
                           appended, threads, after_queue, now>>]_vars
\* A validation error was reported while a "below" alert was armed.
C7_Witness ==
    /\ msgs = <<Box("Invalid number", "")>>
    /\ alerts["bitcoin"] = [threshold |-> Num(2), direction |-> "below"]

\* C8: set_alert with empty text, for any direction, leaves the coin with
\* no alert (other coins' alerts untouched); while a coin has no alert no
\* step shows a Price Alert for it; and a coin without an alert gets one
\* only by a set_alert that reports "Alert set".
C8_EmptyTextClears ==
    /\ [](\A c \in CoinSet, d \in Directions :
            /\ SetAlertBox(c, <<>>) = Box("Alert cleared", c)
            /\ AlertAfterSet(alerts[c], <<>>, d).threshold = NoThreshold)
    /\ [][\A c \in CoinSet :
            /\ msgs' = <<Box("Alert cleared", c)>>
                 => /\ alerts'[c].threshold = NoThreshold
                    /\ \A o \in CoinSet \ {c} : alerts'[o] = alerts[o]
            /\ alerts[c].threshold = NoThreshold
                 => NumBoxes(msgs', "Price Alert", c) = 0
            /\ (alerts[c].threshold = NoThreshold
                  /\ alerts'[c].threshold # NoThreshold)
                 => msgs' = <<Box("Alert set", c)>>]_vars
\* Before any price was recorded, a "below" alert of bitcoin was cleared by
\* the user.
C8_Witness ==
    /\ now = 0
    /\ msgs = <<Box("Alert cleared", "bitcoin")>>
    /\ alerts["bitcoin"] = [threshold |-> NoThreshold, direction |-> "below"]

\* C9: in every reachable state an armed alert's threshold is a finite
\* number.
C9_ThresholdFinite ==
    \A c \in CoinSet :
        alerts[c].threshold # NoThreshold => IsFinite(alerts[c].threshold)

\* C10: clear_history empties every coin's history and the timestamp log
\* and leaves every current price and every alert unchanged.
C10_ClearHistoryFrame ==
    [][msgs' = <<Box("Cleared", "")>>
         => /\ \A c \in CoinSet : price_history'[c] = <<>>
            /\ timestamps' = <<>>
            /\ current_prices' = current_prices
            /\ alerts' = alerts]_vars
\* History was cleared while a price was known and an alert was armed.
C10_Witness ==
    /\ msgs = <<Box("Cleared", "")>>
    /\ timestamps = <<>>
    /\ price_history["bitcoin"] = <<>>
    /\ current_prices["bitcoin"] = 1
    /\ now = 2
    /\ alerts["bitcoin"] = [threshold |-> Num(2), direction |-> "above"]

\* C11: in a written export every price cell sits in a row whose first
\* column is the timestamp of the cycle in which that price was recorded
\* (under ExportSpec the price recorded in cycle t is PriceAt(t)); the
\* timestamp log is never shorter than a history there, so no such row has
\* an empty timestamp.
C11_ExportTimestampsAligned ==
    csv_file # NoFile
        => \A k \in 1..Len(csv_file.rows) : \A c \in CoinSet :
             LET row == csv_file.rows[k]
             IN row.cells[c] # EmptyCell
                  => /\ row.timestamp # EmptyCell
                     /\ row.cells[c] = PriceAt(row.timestamp)

\* C12: a written export has as many data rows as the longest history, and
\* a coin with k recorded points has its k values in the last k rows in
\* chronological order and empty cells in the rows before them.
C12_ExportRightAligned ==
    csv_file # NoFile
        => LET rows == csv_file.rows
               m == Len(rows)
           IN /\ \A c \in CoinSet : m >= Len(price_history[c])
              /\ \E c \in CoinSet : m = Len(price_history[c])
              /\ \A c \in CoinSet : \A j \in 1..m :
                   LET k == Len(price_history[c])
                   IN rows[j].cells[c] =
                        IF j <= m - k THEN EmptyCell
                        ELSE price_history[c][j - (m - k)]
\* bitcoin has three points and ethereum one: ethereum's value is in the
\* last of three rows and its first two cells are empty.
C12_Witness ==
    /\ csv_file # NoFile
    /\ Len(price_history["bitcoin"]) = 3
    /\ price_history["ethereum"] = <<PriceAt(1)>>
    /\ Len(csv_file.rows) = 3
    /\ csv_file.rows[1].cells["ethereum"] = EmptyCell
    /\ csv_file.rows[2].cells["ethereum"] = EmptyCell
    /\ csv_file.rows[3].cells["ethereum"] = PriceAt(1)

\* The tracker state the claims speak of.
tracker == <<price_history, timestamps, current_prices, alerts>>

\* C13: the fetch thread never writes the histories, the timestamp log, the
\* current prices or the alerts: its step only hands one result to the main
\* loop, and every step that changes tracker state is a main-loop handler
\* (the number of running threads is the same before and after it).
C13_SingleWriter ==
    /\ [][threads' < threads
            => /\ tracker' = tracker
               /\ Len(after_queue') = Len(after_queue) + 1
               /\ after_queue'[Len(after_queue')].kind = "process"]_vars
    /\ [][tracker' # tracker => threads' = threads]_vars
\* After history was cleared, a fetched price of 2 for bitcoin waits in the
\* main loop's queue and nothing of it has been written yet.
C13_Witness ==
    /\ threads = 0
    /\ Len(after_queue) = 1
    /\ after_queue[1].kind = "process"
    /\ ~after_queue[1].raised
    /\ after_queue[1].prices["bitcoin"] = 2
    /\ current_prices["bitcoin"] = 1
    /\ price_history["bitcoin"] = <<>>
    /\ now = 1

\* C14: whatever the refresh field holds, every applied fetch result (one
\* that carries prices) leaves a timer for the next fetch pending, with a
\* delay of at least 1000 ms.
C14_IntervalNeverStopsScheduling ==
    [][\A i \in 1..Len(after_queue) :
          (IsProcess(i) /\ ~after_queue[i].raised /\ ProcessStep)
              => \E j \in 1..Len(after_queue') :
                   /\ after_queue'[j].kind = "schedule"
                   /\ after_queue'[j].delay >= 1000]_vars

\* C15: a coin's alert changes only in three ways: a set_alert that
\* reports "Alert set" arms (or replaces) it; a set_alert that reports
\* "Alert cleared" takes it from armed to no alert; a poll cycle that shows
\* the coin's Price Alert takes it from armed to no alert.  So a poll cycle
\* never arms it, and clear_history and the export never change it.
C15_AlertStateMachine ==
    [][\A c \in CoinSet :
         LET t == alerts[c].threshold
             u == alerts'[c].threshold
             same_dir == alerts'[c].direction = alerts[c].direction
         IN /\ alerts'[c] # alerts[c]
                 => \/ msgs' = <<Box("Alert set", c)>> /\ u # NoThreshold
                    \/ /\ msgs' = <<Box("Alert cleared", c)>>
                       /\ t # NoThreshold /\ u = NoThreshold /\ same_dir
                    \/ /\ ProcessStep
                       /\ NumBoxes(msgs', "Price Alert", c) = 1
                       /\ t # NoThreshold /\ u = NoThreshold /\ same_dir
            /\ ProcessStep => (u = t \/ u = NoThreshold)
            /\ (msgs' = <<Box("Cleared", "")>> \/ csv_file' # NoFile
                  \/ msgs' = <<Box("No Data", "")>>)
                 => alerts'[c] = alerts[c]]_vars
\* An export was written while bitcoin's alert was armed and ethereum's
\* "below" alert was gone again.
C15_Witness ==
    /\ csv_file # NoFile
    /\ alerts["bitcoin"] = [threshold |-> Num(2), direction |-> "above"]
    /\ alerts["ethereum"] = [threshold |-> NoThreshold, direction |-> "below"]
    /\ now = 2

C17_UnavailableMeansUnknown ==
    [][\A i \in 1..Len(after_queue) :
          (IsProcess(i) /\ ~after_queue[i].raised /\ ProcessStep)
              => \A c \in CoinSet :
                   after_queue[i].prices[c] = None
                       => current_prices'[c] = None]_vars
\* C17 as amended: a coin's current price is the most recent price a fetch
\* result carried for it, or unknown when none ever did: applying a result
\* with a price for the coin sets it, every other step (a cycle in which
\* the coin is unavailable included) leaves it as it was, and while it is
\* unknown nothing has been recorded for the coin.
C17_CurrentIsLastFetched ==
    /\ [](\A c \in CoinSet :
            current_prices[c] = None
                => appended[c] = <<>> /\ price_history[c] = <<>>)
    /\ [][\A c \in CoinSet :
            IF \E i \in 1..Len(after_queue) :
                  /\ IsProcess(i) /\ ~after_queue[i].raised /\ ProcessStep
                  /\ after_queue[i].prices[c] # None
            THEN \A i \in 1..Len(after_queue) :
                    IsProcess(i) => current_prices'[c] = after_queue[i].prices[c]
            ELSE current_prices'[c] = current_prices[c]]_vars
\* Two cycles were applied without a clear; bitcoin was unavailable in one
\* of them and still has the price it got in the other.
C17_Witness ==
    /\ now = 2
    /\ TimerPending(after_queue)
    /\ appended["ethereum"] = <<1, 2>>
    /\ appended["bitcoin"] = <<1>>
    /\ current_prices["bitcoin"] = 1

\* C18: in every reachable state, for every coin,
\* len(price_history[coin]) <= len(timestamps) <= MAX_HISTORY, so the pad of
\* line 324 is never positive.
C18_HistoryWithinTimestamps ==
    /\ \A c \in CoinSet : Len(price_history[c]) <= Len(timestamps)
    /\ Len(timestamps) <= MAX_HISTORY
    /\ MaxLen(price_history) - Len(timestamps) <= 0
\* A cycle was applied in which no coin got a price: the log has an entry
\* and the histories have none.
C18_Witness ==
    /\ Len(timestamps) = 1
    /\ \A c \in CoinSet : price_history[c] = <<>>
    /\ TimerPending(after_queue)

\* C19: a Price Alert for a coin is shown only by the step that applies a
\* fetch result carrying a price for that coin; applying a result in which
\* the coin is unavailable leaves its alert as it was.
C19_NotifyOnlyOnRecordedPrice ==
    [][\A c \in CoinSet :
         /\ NumBoxes(msgs', "Price Alert", c) > 0
              => \E i \in 1..Len(after_queue) :
                   /\ IsProcess(i) /\ ~after_queue[i].raised /\ ProcessStep
                   /\ after_queue[i].prices[c] # None
         /\ \A i \in 1..Len(after_queue) :
              (IsProcess(i) /\ ProcessStep
                 /\ (after_queue[i].raised \/ after_queue[i].prices[c] = None))
                  => alerts'[c] = alerts[c]]_vars
\* set_alert armed "above 2" while bitcoin's current price was already 2,
\* and showed only "Alert set".
C19_Witness ==
    /\ msgs = <<Box("Alert set", "bitcoin")>>
    /\ alerts["bitcoin"] = [threshold |-> Num(2), direction |-> "above"]
    /\ current_prices["bitcoin"] = 2

====
